---- MODULE Spec2Model ----
(***************************************************************************)
(* File-processor backends of llama-stack: the Docling backend             *)
(* (providers/inline/file_processor/docling), the earlier Docling backend  *)
(* (providers/inline/file_processors/docling, "legacy" below) and the      *)
(* PyPDF backend (providers/inline/file_processors/pypdf).                 *)
(*                                                                         *)
(* One backend instance is constructed and then serves process_file calls  *)
(* one after the other.  A call is a sequence of steps (pc); what the      *)
(* external libraries do (temp-file I/O, the document converter, the       *)
(* document handle's exports, the HybridChunker) is chosen by the          *)
(* environment at the step that invokes them.                              *)
(***************************************************************************)
EXTENDS Integers, Sequences, FiniteSets, TLC

VARIABLES
    backend,    \* which implementation the instance is
    installed,  \* which optional libraries the environment has
    config,     \* the configuration the instance was constructed with
    sched,      \* which call is running, and the locals of the call that is not
    win,        \* one run of the chunk windower, step by step
    opts,       \* one call of _parse_docling_options
    inst,       \* the backend instance: state, converter and chunker handles
    pc,         \* position of the current process_file call
    req,        \* arguments of the current call
    tmpfile,    \* the scratch file of the current call
    doc,        \* the document handle the converter returned
    content,    \* exported content
    chunks,     \* local variable chunks of process_file
    chunk_count,\* local variable chunk_count of process_file
    exc,        \* exception travelling to the handlers of process_file
    result,     \* what the call gave its caller
    log,        \* log records emitted by the current call
    hist        \* what the current call has invoked so far

vars == <<backend, installed, config, sched, win, opts, inst, pc, req, tmpfile, doc, content, chunks,
          chunk_count, exc, result, log, hist>>

----------------------------------------------------------------------------
(* Bounds of the model *)

MaxText == 2        \* longest exported text, in token units
MaxWindow == 2      \* largest static max_chunk_size_tokens
MaxNative == 2      \* most chunks the native chunker yields
MaxStat == 1        \* largest number of pages / tables / figures
WinMaxText == 6     \* longest short text given to the windower alone
WinMaxWindow == 4   \* largest small window and overlap given to the windower alone

----------------------------------------------------------------------------
(* Values *)

Backends == {"docling", "docling_legacy", "pypdf"}

NoDoc == [kind |-> "none"]
NoContent == [fmt |-> "none", len |-> 0]
Absent == [some |-> FALSE, list |-> <<>>]
Some(l) == [some |-> TRUE, list |-> l]
NoResult == [status |-> "none"]
\* A call of the windower: whether it was made, and the window and overlap
\* it was given.
NoWindowerCall == [called |-> FALSE, window_len |-> 0, overlap_len |-> 0]
WindowerCall(window_len, overlap_len) ==
    [called |-> TRUE, window_len |-> window_len, overlap_len |-> overlap_len]

NoHist == [tmp_created |-> FALSE, decode |-> FALSE, chunk_calls |-> 0, native_calls |-> 0,
           fallback_calls |-> 0, native |-> "none", fallback |-> "none",
           native_ever |-> FALSE, native_partial |-> 0, windower |-> NoWindowerCall]

Min(a, b) == IF a < b THEN a ELSE b

\* No run of the windower.
NoWin == [pc |-> "off", text_len |-> 0, window_len |-> 0, overlap_len |-> 0,
          overlap |-> 0, offset |-> 0, spans |-> <<>>, iterations |-> 0]

\* Exception kinds the external libraries are let to raise.
LibFaults == {"AttributeError", "TypeError", "ValueError", "RuntimeError",
              "OSError", "ImportError", "KeyError"}

\* file_data as the caller may pass it.  The annotation is bytes; the Docling
\* backend also takes the base64 text of a JSON request.
BytesPayloads == {"bytes_empty", "bytes"}
Payloads == BytesPayloads \cup
            {"str_empty", "b64_invalid", "b64_to_empty", "b64", "not_bytes"}

Formats == {"markdown", "html", "json", "text", "yaml"}

\* Field(ge=100) of default_chunk_size_tokens and Field(le=2048) of
\* default_chunk_overlap_tokens: the smallest default window and the largest
\* default overlap a configuration may hold.
min_chunk_size_tokens == 100
max_chunk_overlap_tokens == 2048

\* Lengths of an extracted text, in token units: the short ones, and one
\* longer than the smallest default window.
TextLens == 0..MaxText \cup {min_chunk_size_tokens + 1}

AutoStrategy == [type |-> "auto", max_chunk_size_tokens |-> 0, chunk_overlap_tokens |-> 0]
NoStrategy == [type |-> "none", max_chunk_size_tokens |-> 0, chunk_overlap_tokens |-> 0]
StaticStrategies ==
    { [type |-> "static", max_chunk_size_tokens |-> w, chunk_overlap_tokens |-> o] :
        w \in 1..MaxWindow, o \in 0..MaxWindow }
Strategies == {NoStrategy, AutoStrategy} \cup StaticStrategies

Requests(b) ==
    [ file_data : IF b = "docling" THEN Payloads ELSE BytesPayloads,
      format : Formats,
      chunking_strategy : Strategies,
      include_embeddings : BOOLEAN ]

NoReq == [file_data |-> "none", format |-> "none", chunking_strategy |-> NoStrategy,
          include_embeddings |-> FALSE]

\* An exception: its class, its message and the exception it was raised from.
Exc(kind, msg, cause) == [kind |-> kind, msg |-> msg, cause |-> cause]
NoExc == Exc("none", "", "none")
LibExc(kind) == Exc(kind, "library", "none")

\* The frame of a call that has not begun.
IdleLocals ==
    [pc |-> "idle", req |-> NoReq, tmpfile |-> "none", doc |-> NoDoc,
     content |-> NoContent, chunks |-> Absent, chunk_count |-> 0, exc |-> NoExc,
     result |-> NoResult, log |-> {}, hist |-> NoHist]

\* One call at a time: nothing is parked.
NoSched == [running |-> 0, parked |-> IdleLocals]

\* A call that ended by raising.
Raised(kind, msg, cause) ==
    [status |-> "raised", kind |-> kind, msg |-> msg, cause |-> cause]

----------------------------------------------------------------------------
(* Document handles *)

Methods == {"export_to_markdown", "export_to_html", "export_to_json", "export_to_text"}
\* What one call of an export operation may raise; "none" when it returns.
ExportFaults == {"RuntimeError", "ValueError"}
ExportCalls == {"none"} \cup ExportFaults
Attributes == {"pages", "tables", "figures"}

\* An attribute is missing, has no len(), or has a size.
Missing == [kind |-> "missing", size |-> 0]
Unsized == [kind |-> "unsized", size |-> 0]
Sized(n) == [kind |-> "sized", size |-> n]

StatShapes ==
    { [a \in Attributes |-> CASE a = "pages" -> Sized(MaxStat)
                              [] a = "tables" -> Sized(0)
                              [] OTHER -> Missing],
      [a \in Attributes |-> CASE a = "pages" -> Unsized
                              [] a = "tables" -> Missing
                              [] OTHER -> Sized(MaxStat)],
      [a \in Attributes |-> CASE a = "pages" -> Missing
                              [] a = "tables" -> Sized(MaxStat)
                              [] OTHER -> Unsized],
      [a \in Attributes |-> CASE a = "pages" -> Sized(0)
                              [] a = "tables" -> Unsized
                              [] OTHER -> Missing] }

\* The export operation a format is dispatched to.
MethodOf(format_type) ==
    CASE format_type = "markdown" -> "export_to_markdown"
      [] format_type = "html" -> "export_to_html"
      [] format_type = "json" -> "export_to_json"
      [] OTHER -> "export_to_text"

\* The export operations a call can reach; the handle has all the others.
ReachableMethods(b, format_type) ==
    IF b = "docling_legacy"
    THEN {MethodOf(format_type),
          IF format_type = "markdown" THEN "export_to_markdown" ELSE "export_to_text"}
    ELSE {MethodOf(format_type)}

DocHandles(b, format_type) ==
    { [kind |-> "doc", has |-> e, len |-> n, stats |-> s] :
        e \in { f \in [Methods -> BOOLEAN] :
                  \A m \in Methods \ ReachableMethods(b, format_type) : f[m] },
        n \in TextLens,
        s \in StatShapes }

\* What an export operation of the handle returns: the text in that format.
Text(method, n) == [fmt |-> method, len |-> n]

\* Outcome of a call: a value, or the exception kind it raised.
Ok(v) == [raised |-> "none", value |-> v]
Raise(kind) == [raised |-> kind, value |-> <<>>]

----------------------------------------------------------------------------
(* Chunking helpers shared by the backends (llama_stack.providers.utils) *)

\* A chunk: type is "Chunk" for a Chunk object and "str" for a plain string;
\* processor is the tag of the code that made it; of is the text it slices.
ChunkRec(type, processor, of, start, end) ==
    [type |-> type, processor |-> processor, of |-> of, start |-> start, end |-> end]

\* (window_len, overlap_len) of a strategy: the static values, else the defaults.
extract_chunk_params_from_strategy(strategy, default_size, default_overlap) ==
    IF strategy.type = "static"
    THEN <<strategy.max_chunk_size_tokens, strategy.chunk_overlap_tokens>>
    ELSE <<default_size, default_overlap>>

\* As clamp_overlap, with the overlap taken as given.
clamp_overlap_as_given(window_len, overlap_len) == overlap_len

\* window_len <= overlap_len: the overlap is clamped to window_len - 1.
clamp_overlap(window_len, overlap_len) ==
    IF window_len <= overlap_len THEN window_len - 1 ELSE overlap_len

\* As next_offset, advancing by the window plus the overlap.
next_offset_added(offset, window_len, overlap) == offset + window_len + overlap

\* As next_offset, with the overlap taken off twice.
next_offset_overlap_twice(offset, window_len, overlap) ==
    offset + window_len - 2 * overlap

\* The offset advances by window_len - overlap_len.
next_offset(offset, window_len, overlap) == offset + window_len - overlap

\* The windower's spans over a text of n tokens, from offset on.
WindowSpans(n, window_len, overlap, offset) ==
    LET stride == next_offset(offset, window_len, overlap) - offset
        start(k) == offset + k * stride
        \* the chunks the loop emits: the first, and each one whose
        \* predecessor did not reach the end of the text
        emitted == { k \in 0..n : k = 0 \/ start(k - 1) + window_len < n }
    IN  [ k \in 1..Cardinality(emitted) |->
            <<start(k - 1), Min(start(k - 1) + window_len, n)>> ]

\* Chunk objects for the text: empty for the empty text; an overlap that is
\* not below the window is clamped to window_len - 1.
make_overlapped_chunks(text, window_len, overlap_len, processor) ==
    LET overlap == clamp_overlap(window_len, overlap_len)
        spans == IF text.len = 0 THEN <<>>
                 ELSE WindowSpans(text.len, window_len, overlap, 0)
    IN  [i \in 1..Len(spans) |->
            ChunkRec("Chunk", processor, text.fmt, spans[i][1], spans[i][2])]

\* The text of a Chunk object as a plain string.
interleaved_content_as_str(chunk) == [chunk EXCEPT !.type = "str"]

----------------------------------------------------------------------------
(* Docling backend: providers/inline/file_processor/docling/docling.py *)

\* DoclingConfig.default_chunk_size_tokens / default_chunk_overlap_tokens
default_chunk_size_tokens == 800
default_chunk_overlap_tokens == 400

\* The configurations an instance may be constructed with: the field
\* defaults, and the smallest default window with the smallest and the
\* largest default overlap.
DefaultConfig ==
    [default_chunk_size_tokens |-> default_chunk_size_tokens,
     default_chunk_overlap_tokens |-> default_chunk_overlap_tokens]
Configs ==
    {DefaultConfig} \cup
    { [default_chunk_size_tokens |-> min_chunk_size_tokens,
       default_chunk_overlap_tokens |-> o] : o \in {0, max_chunk_overlap_tokens} }

\* len() of an attribute of the handle.
LenOf(v) == IF v.kind = "sized" THEN Ok(v.size) ELSE Raise("TypeError")

\* Exceptions _extract_document_stats absorbs around len().
StatsCaught == {"TypeError", "AttributeError"}

\* One attribute: 0 when missing or when len() raises an absorbed exception.
StatOf(document, attr) ==
    IF document.stats[attr].kind # "missing"
    THEN IF LenOf(document.stats[attr]).raised \in StatsCaught
         THEN Ok(0)
         ELSE LenOf(document.stats[attr])
    ELSE Ok(0)

extract_document_stats(document, attributes) ==
    IF \E attr \in attributes : StatOf(document, attr).raised # "none"
    THEN Raise(CHOOSE k \in LibFaults :
                 \E attr \in attributes : StatOf(document, attr).raised = k)
    ELSE Ok([attr \in attributes |-> StatOf(document, attr).value])

\* As export_methods, with markdown as the operation of an unknown format.
export_methods_markdown_default(format_type) ==
    CASE format_type = "html" -> "export_to_html"
      [] format_type = "json" -> "export_to_json"
      [] OTHER -> "export_to_markdown"

\* format -> export method name, "export_to_text" when not found.
export_methods(format_type) ==
    CASE format_type = "markdown" -> "export_to_markdown"
      [] format_type = "html" -> "export_to_html"
      [] format_type = "json" -> "export_to_json"
      [] OTHER -> "export_to_text"

\* fault: what the export operation does on this call.
export_document_content(document, format_type, fault) ==
    LET method_name == export_methods(format_type)
    IN  IF ~document.has[method_name]
        THEN Raise("AttributeError")
        ELSE IF fault = "none"
             THEN Ok(Text(method_name, document.len))
             ELSE Raise(fault)

\* Exceptions the two try blocks of _create_docling_chunks turn into a fallback.
NativeCaught == {"AttributeError", "TypeError", "ValueError"}

\* Exceptions of the export that _fallback_text_chunking turns into ([], 0).
FallbackExportCaught == {"AttributeError", "RuntimeError"}

\* return [], 0 of _fallback_text_chunking (line 186).
fallback_failed_chunks == Some(<<>>)

\* Exceptions of the export that process_file reports as "Export failed".
ExportCaught == {"AttributeError", "RuntimeError"}

\* What the handlers of process_file raise for an exception of the try block.
process_file_handler(e) ==
    CASE e.kind = "ImportError" ->
            Raised("RuntimeError", "Missing dependencies for processing", e.kind)
      [] e.kind = "OSError" -> Raised("RuntimeError", "File I/O error", e.kind)
      [] e.kind = "RuntimeError" -> Raised(e.kind, e.msg, e.cause)
      [] OTHER -> Raised("RuntimeError", "Unexpected error processing file", e.kind)


\* ProcessedContent of llama_stack.apis.file_processor: content, an optional
\* sequence of chunk records, optional embeddings, metadata.
ProcessedContentOfChunks(c, ch, emb, metadata) ==
    Ok([status |-> "pending", content |-> c, chunks |-> ch, embeddings |-> emb,
        metadata |-> metadata])

\* As validate_file_data, without the check of the length after decoding.
validate_file_data_unsized(file_data) ==
    CASE file_data = "str_empty" -> Exc("ValueError", "Empty file data provided", "none")
      [] file_data = "b64_invalid" -> Exc("ValueError", "binascii.Error", "none")
      [] file_data = "not_bytes" ->
            Exc("TypeError", "file_data must be bytes or base64 string", "none")
      [] OTHER -> NoExc

\* Lines 233-243: the error raised for a payload, NoExc for a payload that
\* is, or decodes to, at least one byte.
validate_file_data(file_data) ==
    CASE file_data = "str_empty" -> Exc("ValueError", "Empty file data provided", "none")
      [] file_data = "b64_invalid" -> Exc("ValueError", "binascii.Error", "none")
      [] file_data = "b64_to_empty" ->
            Exc("ValueError", "Empty file data after processing", "none")
      [] file_data = "not_bytes" ->
            Exc("TypeError", "file_data must be bytes or base64 string", "none")
      [] file_data = "bytes_empty" ->
            Exc("ValueError", "Empty file data after processing", "none")
      [] OTHER -> NoExc

\* What the HybridChunker does on one use: chunk() raises, or the iteration
\* yields `produced` chunks and then ends or raises (in the iterator or in
\* contextualize()).
NativeFaults == {"AttributeError", "TypeError", "ValueError", "RuntimeError", "KeyError"}
NativeBehaviours ==
    { nb \in [call_fault : NativeFaults \cup {"none"}, produced : 0..MaxNative,
              iter_fault : NativeFaults \cup {"none"}] :
        nb.call_fault # "none" => (nb.produced = 0 /\ nb.iter_fault = "none") }

\* As NativeChunks, with the first chunk the chunker yields left out of the
\* list while it is still counted.
NativeChunks_first_dropped(type, n) ==
    [i \in 1..(n - 1) |-> ChunkRec(type, "docling_hybrid", "native", i, i)]

\* The chunks of a native run that yielded n chunks.
NativeChunks(type, n) ==
    [i \in 1..n |-> ChunkRec(type, "docling_hybrid", "native", i - 1, i - 1)]

\* As chunks_after_native_failure, with the chunks the native chunker had
\* yielded before it raised kept in front of the fallback's chunks.
chunks_after_native_failure_keeping(partial, fallback) == partial \o fallback

\* return self._fallback_text_chunking(...) in the except clauses of
\* _create_docling_chunks: the list the native loop was filling is dropped.
chunks_after_native_failure(partial, fallback) == fallback

\* The instance a constructor leaves.
NewInst == [state |-> "new", converter |-> FALSE, chunker |-> FALSE]

\* As _initialize_docling, with the import of the HybridChunker left unguarded.
initialize_docling_unguarded(env) ==
    IF ~env.decoder \/ ~env.chunker
    THEN Raise("ImportError")
    ELSE Ok([state |-> "ready", converter |-> TRUE, chunker |-> env.chunker])

initialize_docling(env) ==
    IF ~env.decoder
    THEN Raise("ImportError")
    ELSE Ok([state |-> "ready", converter |-> TRUE, chunker |-> env.chunker])

Docling_Construct ==
    /\ backend = "docling"
    /\ inst.state = "new"
    /\ inst' = IF initialize_docling(installed).raised = "none"
               THEN initialize_docling(installed).value
               ELSE [inst EXCEPT !.state = "unavailable"]
    /\ UNCHANGED <<backend, installed, config, sched, win, opts, pc, req, tmpfile, doc, content, chunks,
                   chunk_count, exc, result, log, hist>>

\* process_file, lines 230-249: payload validation and option parsing.
Docling_Validate ==
    /\ backend = "docling"
    /\ inst.state = "ready"
    /\ pc = "idle"
    /\ \E r \in Requests("docling") :
         /\ req' = r
         /\ IF validate_file_data(r.file_data) = NoExc
            THEN /\ pc' = "tmp"
                 /\ result' = NoResult
                 /\ log' = {"info: Processing file"}
            ELSE /\ pc' = "done"
                 /\ result' = Raised(validate_file_data(r.file_data).kind,
                                     validate_file_data(r.file_data).msg, "none")
                 /\ log' = {}
    /\ UNCHANGED <<backend, installed, config, sched, win, opts, inst, tmpfile, doc, content, chunks,
                   chunk_count, exc, hist>>

\* process_file, lines 251-259: the payload is written to a temporary file.
Docling_CreateTemp ==
    /\ backend = "docling"
    /\ pc = "tmp"
    /\ \E io \in {"ok", "create_fails", "write_fails"} :
         /\ tmpfile' = IF io = "create_fails" THEN tmpfile ELSE "exists"
         /\ hist' = [hist EXCEPT !.tmp_created = (io # "create_fails")]
         /\ IF io = "ok"
            THEN /\ pc' = "convert"
                 /\ UNCHANGED <<result, log>>
            ELSE /\ pc' = "done"
                 /\ result' = Raised("RuntimeError", "Failed to create temporary file",
                                     "OSError")
                 /\ log' = log \cup {"error: Failed to create temporary file for filename"}
    /\ UNCHANGED <<backend, installed, config, sched, win, opts, inst, req, doc, content, chunks,
                   chunk_count, exc>>

\* process_file, lines 261-268: the converter decodes the temporary file.
Docling_Convert ==
    /\ backend = "docling"
    /\ pc = "convert"
    /\ IF ~inst.converter
       THEN /\ exc' = Exc("RuntimeError", "DocumentConverter not initialized", "none")
            /\ pc' = "cleanup"
            /\ UNCHANGED <<doc, hist>>
       ELSE /\ hist' = [hist EXCEPT !.decode = TRUE]
            /\ \/ \E k \in LibFaults :
                    /\ exc' = LibExc(k)
                    /\ pc' = "cleanup"
                    /\ UNCHANGED doc
               \/ /\ exc' = Exc("RuntimeError", "Invalid conversion result for filename",
                                "none")
                  /\ pc' = "cleanup"
                  /\ UNCHANGED doc
               \/ \E d \in DocHandles("docling", req.format) :
                    /\ doc' = d
                    /\ pc' = "export"
                    /\ UNCHANGED exc
    /\ UNCHANGED <<backend, installed, config, sched, win, opts, inst, req, tmpfile, content, chunks,
                   chunk_count, result, log>>

\* process_file, lines 270-288: export in the requested format, then the
\* chunking step when a strategy was given.
Docling_Export ==
    /\ backend = "docling"
    /\ pc = "export"
    /\ \E fault \in ExportCalls :
       LET out == export_document_content(doc, req.format, fault)
       IN  IF out.raised = "none"
           THEN /\ content' = out.value
                /\ pc' = IF req.chunking_strategy.type # "none" THEN "chunk" ELSE "assemble"
                /\ UNCHANGED <<exc, log>>
           ELSE /\ exc' = IF out.raised \in ExportCaught
                          THEN Exc("RuntimeError", "Export failed for filename", out.raised)
                          ELSE LibExc(out.raised)
                /\ log' = IF out.raised \in ExportCaught
                          THEN log \cup {"error: Export failed for filename"}
                          ELSE log
                /\ pc' = "cleanup"
                /\ UNCHANGED content
    /\ UNCHANGED <<backend, installed, config, sched, win, opts, inst, req, tmpfile, doc, chunks,
                   chunk_count, result, hist>>


\* _create_docling_chunks, lines 123-173.
Docling_CreateChunks ==
    /\ backend = "docling"
    /\ pc = "chunk"
    /\ IF ~inst.chunker
       THEN /\ pc' = "fallback"
            /\ hist' = [hist EXCEPT !.chunk_calls = @ + 1]
            /\ UNCHANGED <<chunks, chunk_count, exc, log>>
       ELSE \E nb \in NativeBehaviours :
              LET fault == IF nb.call_fault # "none" THEN nb.call_fault ELSE nb.iter_fault
                  h == [hist EXCEPT !.chunk_calls = @ + 1, !.native_calls = @ + 1,
                                    !.native_ever = TRUE]
              IN  IF fault = "none"
                  THEN /\ chunks' = Some(NativeChunks("Chunk", nb.produced))
                       /\ chunk_count' = nb.produced
                       /\ log' = log \cup {"info: Docling native chunking created chunks"}
                       /\ hist' = [h EXCEPT !.native = "ok"]
                       /\ pc' = "assemble"
                       /\ UNCHANGED exc
                  ELSE IF fault \in NativeCaught
                  THEN /\ log' = log \cup {"warning: Docling native chunking failed"}
                       /\ hist' = [h EXCEPT !.native = "failed",
                                            !.native_partial = nb.produced]
                       /\ pc' = "fallback"
                       /\ UNCHANGED <<chunks, chunk_count, exc>>
                  ELSE /\ exc' = LibExc(fault)
                       /\ hist' = [h EXCEPT !.native = "raised",
                                            !.native_partial = nb.produced]
                       /\ pc' = "cleanup"
                       /\ UNCHANGED <<chunks, chunk_count, log>>
    /\ UNCHANGED <<backend, installed, config, sched, win, opts, inst, req, tmpfile, doc, content, result>>

\* _fallback_text_chunking, lines 175-220.
Docling_Fallback ==
    /\ backend = "docling"
    /\ pc = "fallback"
    /\ \E fault \in ExportCalls :
       LET text == export_document_content(doc, req.format, fault)
           params == extract_chunk_params_from_strategy(req.chunking_strategy,
                         config.default_chunk_size_tokens,
                         config.default_chunk_overlap_tokens)
           document_stats == extract_document_stats(doc, Attributes)
           chunk_objects == make_overlapped_chunks(text.value, params[1], params[2],
                                                   "docling_fallback")
           h == [hist EXCEPT !.fallback_calls = @ + 1]
       IN  IF text.raised \in FallbackExportCaught
           THEN /\ chunks' = fallback_failed_chunks
                /\ chunk_count' = 0
                /\ log' = log \cup {"error: Failed to export document for fallback chunking"}
                /\ hist' = [h EXCEPT !.fallback = "export_failed"]
                /\ pc' = "assemble"
                /\ UNCHANGED exc
           ELSE IF text.raised # "none" \/ document_stats.raised # "none"
           THEN /\ exc' = LibExc(IF text.raised # "none" THEN text.raised
                                 ELSE document_stats.raised)
                /\ hist' = [h EXCEPT !.fallback = "raised"]
                /\ pc' = "cleanup"
                /\ UNCHANGED <<chunks, chunk_count, log>>
           ELSE /\ chunks' = Some(chunks_after_native_failure(
                                    NativeChunks("Chunk", hist.native_partial),
                                    chunk_objects))
                /\ chunk_count' = Len(chunk_objects)
                /\ log' = log \cup {"info: Docling fallback chunking created chunks"}
                /\ hist' = [h EXCEPT !.fallback = "ok",
                                      !.windower = WindowerCall(params[1], params[2])]
                /\ pc' = "assemble"
                /\ UNCHANGED exc
    /\ UNCHANGED <<backend, installed, config, sched, win, opts, inst, req, tmpfile, doc, content, result>>

\* process_file, lines 290-337: embeddings, statistics, metadata, result.
Docling_Assemble ==
    /\ backend = "docling"
    /\ pc = "assemble"
    /\ LET document_stats == extract_document_stats(doc, Attributes)
           warn == IF req.include_embeddings /\ chunks.some /\ Len(chunks.list) > 0
                   THEN {"warning: Embedding generation not yet implemented"}
                   ELSE {}
           processed ==
               ProcessedContentOfChunks(content, chunks, Absent,
                   [chunk_count |-> chunk_count, stats |-> document_stats.value,
                    format |-> req.format, processor |-> "docling",
                    include_embeddings |-> req.include_embeddings])
       IN  IF document_stats.raised # "none"
           THEN /\ exc' = LibExc(document_stats.raised)
                /\ log' = log \cup warn
                /\ UNCHANGED result
           ELSE IF processed.raised # "none"
           THEN /\ exc' = LibExc(processed.raised)
                /\ log' = log \cup warn
                /\ UNCHANGED result
           ELSE /\ result' = processed.value
                /\ log' = log \cup warn \cup {"info: Docling processing completed"}
                /\ UNCHANGED exc
    /\ pc' = "cleanup"
    /\ UNCHANGED <<backend, installed, config, sched, win, opts, inst, req, tmpfile, doc, content, chunks,
                   chunk_count, hist>>

\* process_file, lines 339-357: the except clauses, then the finally clause
\* that unlinks the temporary file.
\* As the finally block of process_file, with the converter handle dropped
\* after a failed call (self.converter = None) so that it is built again.
Docling_Cleanup_resetting ==
    /\ backend = "docling"
    /\ pc = "cleanup"
    /\ result' = IF exc.kind # "none"
                 THEN process_file_handler(exc)
                 ELSE [result EXCEPT !.status = "returned"]
    /\ \E unlinked \in BOOLEAN :
         /\ tmpfile' = IF unlinked THEN "removed" ELSE tmpfile
         /\ log' = log \cup (IF exc.kind \notin {"none", "RuntimeError"}
                             THEN {"error: processing filename"} ELSE {})
                       \cup (IF unlinked THEN {}
                             ELSE {"warning: Failed to cleanup temp file"})
    /\ inst' = IF exc.kind # "none" THEN [inst EXCEPT !.converter = FALSE] ELSE inst
    /\ exc' = NoExc
    /\ pc' = "done"
    /\ UNCHANGED <<backend, installed, config, sched, win, opts, req, doc, content, chunks,
                   chunk_count, hist>>

Docling_Cleanup ==
    /\ backend = "docling"
    /\ pc = "cleanup"
    /\ result' = IF exc.kind # "none"
                 THEN process_file_handler(exc)
                 ELSE [result EXCEPT !.status = "returned"]
    /\ \E unlinked \in BOOLEAN :
         /\ tmpfile' = IF unlinked THEN "removed" ELSE tmpfile
         /\ log' = log \cup (IF exc.kind \notin {"none", "RuntimeError"}
                             THEN {"error: processing filename"} ELSE {})
                       \cup (IF unlinked THEN {}
                             ELSE {"warning: Failed to cleanup temp file"})
    /\ exc' = NoExc
    /\ pc' = "done"
    /\ UNCHANGED <<backend, installed, config, sched, win, opts, inst, req, doc, content, chunks,
                   chunk_count, hist>>

----------------------------------------------------------------------------
(* llama_stack/apis/file_processors/file_processors.py *)

\* ProcessedContent: chunks is list[str] | None, so construction is refused
\* (pydantic ValidationError) for a list holding anything but strings.
ProcessedContent(c, ch, emb, metadata) ==
    IF ch.some /\ \E i \in 1..Len(ch.list) : ch.list[i].type # "str"
    THEN Raise("ValidationError")
    ELSE Ok([status |-> "pending", content |-> c, chunks |-> ch, embeddings |-> emb,
             metadata |-> metadata])

----------------------------------------------------------------------------
(* Legacy Docling backend: providers/inline/file_processors/docling/docling.py *)

\* Defaults of the auto strategy (lines 141-142).
Legacy_max_chunk_size == 800
Legacy_chunk_overlap == 400

Legacy_initialize_docling(env) ==
    IF ~env.decoder
    THEN Raise("ImportError")
    ELSE Ok([state |-> "ready", converter |-> TRUE, chunker |-> env.chunker])

Legacy_Construct ==
    /\ backend = "docling_legacy"
    /\ inst.state = "new"
    /\ inst' = IF Legacy_initialize_docling(installed).raised = "none"
               THEN Legacy_initialize_docling(installed).value
               ELSE [inst EXCEPT !.state = "unavailable"]
    /\ UNCHANGED <<backend, installed, config, sched, win, opts, pc, req, tmpfile, doc, content, chunks,
                   chunk_count, exc, result, log, hist>>

\* Direct call of an export operation of the handle; fault: what it does on
\* this call.
CallExport(document, method_name, fault) ==
    IF ~document.has[method_name]
    THEN Raise("AttributeError")
    ELSE IF fault = "none"
         THEN Ok(Text(method_name, document.len))
         ELSE Raise(fault)

\* Lines 202-209: the export of process_file.
Legacy_export(document, format_type, fault) ==
    CASE format_type = "markdown" -> CallExport(document, "export_to_markdown", fault)
      [] format_type = "html" -> CallExport(document, "export_to_html", fault)
      [] format_type = "json" -> CallExport(document, "export_to_json", fault)
      [] OTHER -> CallExport(document, "export_to_text", fault)

\* Lines 131-134: the export of _fallback_text_chunking.
Legacy_fallback_export(document, format_type, fault) ==
    IF format_type = "markdown"
    THEN CallExport(document, "export_to_markdown", fault)
    ELSE CallExport(document, "export_to_text", fault)

\* len(document.attr) if hasattr(document, attr) else 0
Legacy_stat(document, attr) ==
    IF document.stats[attr].kind # "missing" THEN LenOf(document.stats[attr]) ELSE Ok(0)

Legacy_stats(document) ==
    IF \E attr \in Attributes : Legacy_stat(document, attr).raised # "none"
    THEN Raise(CHOOSE k \in LibFaults :
                 \E attr \in Attributes : Legacy_stat(document, attr).raised = k)
    ELSE Ok([attr \in Attributes |-> Legacy_stat(document, attr).value])

\* except Exception, of _create_docling_chunks (line 117).
Legacy_NativeCaught == LibFaults

\* except Exception, of _fallback_text_chunking (line 166).
Legacy_FallbackCaught == LibFaults

\* As Legacy_fallback_failed_chunks, returning None for the chunks.
Legacy_fallback_failed_none == Absent

\* return [], 0 of _fallback_text_chunking (line 168).
Legacy_fallback_failed_chunks == Some(<<>>)

\* except Exception, of process_file (lines 265-267).
Legacy_process_file_handler(e) ==
    Raised("RuntimeError", "Docling processing failed", e.kind)

\* process_file, lines 178-186.  The payload is not looked at.
Legacy_Begin ==
    /\ backend = "docling_legacy"
    /\ inst.state = "ready"
    /\ pc = "idle"
    /\ \E r \in Requests("docling_legacy") : req' = r
    /\ pc' = "tmp"
    /\ result' = NoResult
    /\ log' = {"info: Processing file"}
    /\ UNCHANGED <<backend, installed, config, sched, win, opts, inst, tmpfile, doc, content, chunks,
                   chunk_count, exc, hist>>

\* process_file, lines 189-192.  No finally clause covers the write.
Legacy_CreateTemp ==
    /\ backend = "docling_legacy"
    /\ pc = "tmp"
    /\ \E io \in {"ok", "create_fails", "write_fails"} :
         /\ tmpfile' = IF io = "create_fails" THEN tmpfile ELSE "exists"
         /\ hist' = [hist EXCEPT !.tmp_created = (io # "create_fails")]
         /\ IF io = "ok"
            THEN /\ pc' = "convert"
                 /\ UNCHANGED <<result, log>>
            ELSE /\ pc' = "done"
                 /\ result' = Legacy_process_file_handler(LibExc("OSError"))
                 /\ log' = log \cup {"error: Docling processing failed for filename"}
    /\ UNCHANGED <<backend, installed, config, sched, win, opts, inst, req, doc, content, chunks,
                   chunk_count, exc>>

\* process_file, line 196.  An empty file is not a document.
Legacy_Convert ==
    /\ backend = "docling_legacy"
    /\ pc = "convert"
    /\ hist' = [hist EXCEPT !.decode = TRUE]
    /\ \/ \E k \in LibFaults :
            /\ exc' = LibExc(k)
            /\ pc' = "cleanup"
            /\ UNCHANGED doc
       \/ /\ exc' = LibExc("AttributeError")
          /\ pc' = "cleanup"
          /\ UNCHANGED doc
       \/ /\ req.file_data # "bytes_empty"
          /\ \E d \in DocHandles("docling_legacy", req.format) :
               /\ doc' = d
               /\ pc' = "export"
               /\ UNCHANGED exc
    /\ UNCHANGED <<backend, installed, config, sched, win, opts, inst, req, tmpfile, content, chunks,
                   chunk_count, result, log>>

\* process_file, lines 198-221.
Legacy_Export ==
    /\ backend = "docling_legacy"
    /\ pc = "export"
    /\ \E fault \in ExportCalls :
       LET out == Legacy_export(doc, req.format, fault)
       IN  IF out.raised = "none"
           THEN /\ content' = out.value
                /\ pc' = IF req.chunking_strategy.type # "none" THEN "chunk" ELSE "assemble"
                /\ UNCHANGED exc
           ELSE /\ exc' = LibExc(out.raised)
                /\ pc' = "cleanup"
                /\ UNCHANGED content
    /\ UNCHANGED <<backend, installed, config, sched, win, opts, inst, req, tmpfile, doc, chunks,
                   chunk_count, result, log, hist>>

\* _create_docling_chunks, lines 79-119.
Legacy_CreateChunks ==
    /\ backend = "docling_legacy"
    /\ pc = "chunk"
    /\ IF ~inst.chunker
       THEN /\ pc' = "fallback"
            /\ hist' = [hist EXCEPT !.chunk_calls = @ + 1]
            /\ UNCHANGED <<chunks, chunk_count, exc, log>>
       ELSE \E nb \in NativeBehaviours :
              LET fault == IF nb.call_fault # "none" THEN nb.call_fault ELSE nb.iter_fault
                  h == [hist EXCEPT !.chunk_calls = @ + 1, !.native_calls = @ + 1,
                                    !.native_ever = TRUE]
              IN  IF fault = "none"
                  THEN /\ chunks' = Some(NativeChunks("str", nb.produced))
                       /\ chunk_count' = nb.produced
                       /\ log' = log \cup {"info: Docling native chunking created chunks"}
                       /\ hist' = [h EXCEPT !.native = "ok"]
                       /\ pc' = "assemble"
                       /\ UNCHANGED exc
                  ELSE IF fault \in Legacy_NativeCaught
                  THEN /\ log' = log \cup {"warning: Docling native chunking failed"}
                       /\ hist' = [h EXCEPT !.native = "failed",
                                            !.native_partial = nb.produced]
                       /\ pc' = "fallback"
                       /\ UNCHANGED <<chunks, chunk_count, exc>>
                  ELSE /\ exc' = LibExc(fault)
                       /\ hist' = [h EXCEPT !.native = "raised",
                                            !.native_partial = nb.produced]
                       /\ pc' = "cleanup"
                       /\ UNCHANGED <<chunks, chunk_count, log>>
    /\ UNCHANGED <<backend, installed, config, sched, win, opts, inst, req, tmpfile, doc, content, result>>

\* As Legacy_chunk_strings, with the conversion to strings left out.
Legacy_chunk_objects(chunk_objects) == chunk_objects

\* The strings _fallback_text_chunking returns for the Chunk objects.
Legacy_chunk_strings(chunk_objects) ==
    [i \in 1..Len(chunk_objects) |-> interleaved_content_as_str(chunk_objects[i])]

\* _fallback_text_chunking, lines 121-168.
Legacy_Fallback ==
    /\ backend = "docling_legacy"
    /\ pc = "fallback"
    /\ \E fault \in ExportCalls :
       LET text == Legacy_fallback_export(doc, req.format, fault)
           params == IF req.chunking_strategy.type = "static"
                     THEN <<req.chunking_strategy.max_chunk_size_tokens,
                            req.chunking_strategy.chunk_overlap_tokens>>
                     ELSE <<Legacy_max_chunk_size, Legacy_chunk_overlap>>
           document_metadata == Legacy_stats(doc)
           chunk_objects == make_overlapped_chunks(text.value, params[1], params[2],
                                                   "docling_fallback")
           failure == IF text.raised # "none" THEN text.raised
                      ELSE document_metadata.raised
           h == [hist EXCEPT !.fallback_calls = @ + 1]
       IN  IF failure = "none"
           THEN /\ chunks' = Some(chunks_after_native_failure(
                                    NativeChunks("str", hist.native_partial),
                                    Legacy_chunk_strings(chunk_objects)))
                /\ chunk_count' = Len(chunk_objects)
                /\ log' = log \cup {"info: Docling fallback chunking created chunks"}
                /\ hist' = [h EXCEPT !.fallback = "ok",
                                      !.windower = WindowerCall(params[1], params[2])]
                /\ pc' = "assemble"
                /\ UNCHANGED exc
           ELSE IF failure \in Legacy_FallbackCaught
           THEN /\ chunks' = Legacy_fallback_failed_chunks
                /\ chunk_count' = 0
                /\ log' = log \cup {"error: Fallback chunking also failed"}
                /\ hist' = [h EXCEPT !.fallback =
                                IF text.raised # "none" THEN "export_failed" ELSE "failed"]
                /\ pc' = "assemble"
                /\ UNCHANGED exc
           ELSE /\ exc' = LibExc(failure)
                /\ hist' = [h EXCEPT !.fallback = "raised"]
                /\ pc' = "cleanup"
                /\ UNCHANGED <<chunks, chunk_count, log>>
    /\ UNCHANGED <<backend, installed, config, sched, win, opts, inst, req, tmpfile, doc, content, result>>

\* process_file, lines 223-256.
Legacy_Assemble ==
    /\ backend = "docling_legacy"
    /\ pc = "assemble"
    /\ LET stats == Legacy_stats(doc)
           warn == IF req.include_embeddings /\ chunks.some /\ Len(chunks.list) > 0
                   THEN {"warning: Embedding generation not yet implemented"}
                   ELSE {}
           processed ==
               ProcessedContent(content, chunks, Absent,
                   [chunk_count |-> chunk_count, stats |-> stats.value,
                    format |-> req.format, processor |-> "docling",
                    include_embeddings |-> req.include_embeddings])
       IN  IF stats.raised # "none"
           THEN /\ exc' = LibExc(stats.raised)
                /\ log' = log \cup warn
                /\ UNCHANGED result
           ELSE IF processed.raised # "none"
           THEN /\ exc' = LibExc(processed.raised)
                /\ log' = log \cup warn
                /\ UNCHANGED result
           ELSE /\ result' = processed.value
                /\ log' = log \cup warn \cup {"info: Docling processing completed"}
                /\ UNCHANGED exc
    /\ pc' = "cleanup"
    /\ UNCHANGED <<backend, installed, config, sched, win, opts, inst, req, tmpfile, doc, content, chunks,
                   chunk_count, hist>>

\* process_file, lines 258-267: the finally clause, then the except clause.
Legacy_Cleanup ==
    /\ backend = "docling_legacy"
    /\ pc = "cleanup"
    /\ result' = IF exc.kind # "none"
                 THEN Legacy_process_file_handler(exc)
                 ELSE [result EXCEPT !.status = "returned"]
    /\ \E unlinked \in BOOLEAN :
         /\ tmpfile' = IF unlinked THEN "removed" ELSE tmpfile
         /\ log' = log \cup (IF exc.kind # "none"
                             THEN {"error: Docling processing failed for filename"}
                             ELSE {})
                       \cup (IF unlinked THEN {}
                             ELSE {"warning: Failed to cleanup temp file"})
    /\ exc' = NoExc
    /\ pc' = "done"
    /\ UNCHANGED <<backend, installed, config, sched, win, opts, inst, req, doc, content, chunks,
                   chunk_count, hist>>

----------------------------------------------------------------------------
(* PyPDF backend: providers/inline/file_processors/pypdf/pypdf.py *)

\* Defaults of the auto strategy (lines 61-62).
PyPDF_max_chunk_size == 800
PyPDF_chunk_overlap == 400

\* What PdfReader and extract_text give for a readable payload.
PyPDFDocs ==
    { [kind |-> "doc", has |-> [m \in Methods |-> TRUE], len |-> n,
       stats |-> [a \in Attributes |-> IF a = "pages" THEN Sized(p) ELSE Missing]] :
        n \in TextLens, p \in 0..MaxStat }

\* except ImportError / except Exception of process_file (lines 113-118).
PyPDF_process_file_handler(e) ==
    IF e.kind = "ImportError"
    THEN Raised("RuntimeError", "PyPDF not installed", e.kind)
    ELSE Raised("RuntimeError", "PyPDF processing failed", e.kind)

\* __init__, lines 22-24.
PyPDF_Construct ==
    /\ backend = "pypdf"
    /\ inst.state = "new"
    /\ inst' = [state |-> "ready", converter |-> FALSE, chunker |-> FALSE]
    /\ UNCHANGED <<backend, installed, config, sched, win, opts, pc, req, tmpfile, doc, content, chunks,
                   chunk_count, exc, result, log, hist>>

\* process_file, lines 34-35.  The payload is not looked at.
PyPDF_Begin ==
    /\ backend = "pypdf"
    /\ inst.state = "ready"
    /\ pc = "idle"
    /\ \E r \in Requests("pypdf") : req' = r
    /\ pc' = "convert"
    /\ result' = NoResult
    /\ log' = {"info: Processing PDF file"}
    /\ UNCHANGED <<backend, installed, config, sched, win, opts, inst, tmpfile, doc, content, chunks,
                   chunk_count, exc, hist>>

\* process_file, lines 37-45: import pypdf, read the payload, extract the text.
\* An empty payload is not a PDF.
PyPDF_Decode ==
    /\ backend = "pypdf"
    /\ pc = "convert"
    /\ IF ~installed.decoder
       THEN /\ result' = PyPDF_process_file_handler(LibExc("ImportError"))
            /\ log' = log \cup {"error: PyPDF not installed"}
            /\ pc' = "done"
            /\ UNCHANGED <<doc, content, hist>>
       ELSE /\ hist' = [hist EXCEPT !.decode = TRUE]
            /\ \/ \E k \in LibFaults :
                    /\ result' = PyPDF_process_file_handler(LibExc(k))
                    /\ log' = log \cup {"error: PyPDF processing failed for filename"}
                    /\ pc' = "done"
                    /\ UNCHANGED <<doc, content>>
               \/ /\ req.file_data # "bytes_empty"
                  /\ \E d \in PyPDFDocs :
                       /\ doc' = d
                       /\ content' = Text("extract_text", d.len)
                       /\ pc' = "assemble"
                       /\ UNCHANGED <<result, log>>
    /\ UNCHANGED <<backend, installed, config, sched, win, opts, inst, req, tmpfile, chunks, chunk_count, exc>>

\* process_file, lines 47-118: chunking, result, and the except clauses.
PyPDF_Assemble ==
    /\ backend = "pypdf"
    /\ pc = "assemble"
    /\ LET strategy == req.chunking_strategy
           params == IF strategy.type = "static"
                     THEN <<strategy.max_chunk_size_tokens, strategy.chunk_overlap_tokens>>
                     ELSE <<PyPDF_max_chunk_size, PyPDF_chunk_overlap>>
           chunk_objects == make_overlapped_chunks(content, params[1], params[2], "pypdf")
           ch == IF strategy.type # "none" THEN Some(chunk_objects) ELSE Absent
           n == IF strategy.type # "none" THEN Len(chunk_objects) ELSE 0
           warn == IF strategy.type # "none" /\ req.include_embeddings /\ n > 0
                   THEN {"warning: Embedding generation not yet implemented"}
                   ELSE {}
           processed ==
               ProcessedContent(content, ch, Absent,
                   [chunk_count |-> n,
                    stats |-> [a \in Attributes |-> doc.stats[a].size],
                    format |-> "text", processor |-> "pypdf",
                    include_embeddings |-> req.include_embeddings])
       IN  /\ chunks' = ch
           /\ chunk_count' = n
           /\ hist' = IF strategy.type # "none"
                      THEN [hist EXCEPT !.windower = WindowerCall(params[1], params[2])]
                      ELSE hist
           /\ IF processed.raised = "none"
              THEN /\ result' = [processed.value EXCEPT !.status = "returned"]
                   /\ log' = log \cup warn \cup {"info: PyPDF processing completed"}
              ELSE /\ result' = PyPDF_process_file_handler(LibExc(processed.raised))
                   /\ log' = log \cup warn \cup {"error: PyPDF processing failed for filename"}
    /\ pc' = "done"
    /\ UNCHANGED <<backend, installed, config, sched, win, opts, inst, req, tmpfile, doc, content, exc>>

----------------------------------------------------------------------------
(* Option translation: _parse_docling_options of the two Docling backends *)

\* Python values an options mapping may hold: a value has a type and a text.
PyValue(type, text) == [type |-> type, text |-> text]
PyValues == {PyValue("str", "html"), PyValue("int", "0"),
             PyValue("list", "['en']"), PyValue("NoneType", "None")}

\* bool(value): False for 0, None and the empty str, list and dict.
py_bool(value) ==
    PyValue("bool", IF value.text \in {"", "0", "None", "[]", "{}", "False"}
                    THEN "False" ELSE "True")
\* str(value)
py_str(value) == PyValue("str", value.text)
\* isinstance(x, list)
is_list(value) == value.type = "list"

\* The keys of an options mapping: the six the backends know, and one more.
KnownOptions == {"format", "extract_tables", "extract_figures", "ocr_enabled",
                 "ocr_languages", "preserve_layout"}
OptionKeys == KnownOptions \cup {"page_range"}

\* An options mapping is a function from the keys present to their values.
EmptyDict == [k \in {} |-> PyValue("NoneType", "None")]
OptionMappings == UNION { [K -> PyValues] : K \in SUBSET OptionKeys }

NoOpts == [pc |-> "off", options |-> EmptyDict, docling_options |-> EmptyDict]

\* option_mappings: source_key -> (target_key, transform_func, validation_func)
option_mappings ==
    [source_key \in KnownOptions |->
        CASE source_key = "format" ->
                [target_key |-> "output_format", transform_func |-> "str",
                 validation_func |-> "none"]
          [] source_key = "ocr_languages" ->
                [target_key |-> source_key, transform_func |-> "none",
                 validation_func |-> "is_list"]
          [] OTHER ->
                [target_key |-> source_key, transform_func |-> "bool",
                 validation_func |-> "none"]]

\* Docling backend, lines 89-121.
parse_docling_options(options) ==
    LET kept == { source_key \in DOMAIN option_mappings :
                    /\ source_key \in DOMAIN options
                    /\ ~(option_mappings[source_key].validation_func = "is_list"
                         /\ ~is_list(options[source_key])) }
        source_of(target_key) ==
            CHOOSE source_key \in kept :
                option_mappings[source_key].target_key = target_key
        transformed(source_key) ==
            CASE option_mappings[source_key].transform_func = "str" ->
                    py_str(options[source_key])
              [] option_mappings[source_key].transform_func = "bool" ->
                    py_bool(options[source_key])
              [] OTHER -> options[source_key]
    IN  IF DOMAIN options = {}
        THEN EmptyDict
        ELSE [target_key \in {option_mappings[source_key].target_key : source_key \in kept}
                |-> transformed(source_of(target_key))]

\* docling_options["output_format"] = options["format"] (line 63)
Legacy_output_format(value) == value

\* Legacy Docling backend, lines 53-77.
Legacy_parse_docling_options(options) ==
    LET present == DOMAIN options
        targets ==
            (IF "format" \in present THEN {"output_format"} ELSE {})
            \cup (present \cap {"extract_tables", "extract_figures", "ocr_enabled",
                                "preserve_layout"})
            \cup (IF "ocr_languages" \in present /\ is_list(options["ocr_languages"])
                  THEN {"ocr_languages"} ELSE {})
    IN  IF present = {}
        THEN EmptyDict
        ELSE [target_key \in targets |->
                CASE target_key = "output_format" -> Legacy_output_format(options["format"])
                  [] target_key = "ocr_languages" -> options["ocr_languages"]
                  [] OTHER -> py_bool(options[target_key])]

\* self._parse_docling_options(options) of the Docling backend (line 249).
Docling_ParseOptions ==
    /\ backend = "docling"
    /\ opts.pc = "start"
    /\ opts' = [opts EXCEPT !.pc = "done",
                            !.docling_options = parse_docling_options(opts.options)]
    /\ UNCHANGED <<backend, installed, config, sched, win, inst, pc, req, tmpfile, doc,
                   content, chunks, chunk_count, exc, result, log, hist>>

\* self._parse_docling_options(options) of the legacy backend (line 186).
Legacy_ParseOptions ==
    /\ backend = "docling_legacy"
    /\ opts.pc = "start"
    /\ opts' = [opts EXCEPT !.pc = "done",
                            !.docling_options = Legacy_parse_docling_options(opts.options)]
    /\ UNCHANGED <<backend, installed, config, sched, win, inst, pc, req, tmpfile, doc,
                   content, chunks, chunk_count, exc, result, log, hist>>

OptionsInit ==
    /\ backend \in {"docling", "docling_legacy"}
    /\ installed = [decoder |-> TRUE, chunker |-> FALSE]
    /\ config = DefaultConfig
    /\ sched = NoSched
    /\ win = NoWin
    /\ opts \in { [NoOpts EXCEPT !.pc = "start", !.options = o] : o \in OptionMappings }
    /\ inst = NewInst
    /\ pc = "idle"
    /\ req = NoReq
    /\ tmpfile = "none"
    /\ doc = NoDoc
    /\ content = NoContent
    /\ chunks = Absent
    /\ chunk_count = 0
    /\ exc = NoExc
    /\ result = NoResult
    /\ log = {}
    /\ hist = NoHist

OptionsNext ==
    \/ Docling_ParseOptions
    \/ Legacy_ParseOptions

OptionsSpec == OptionsInit /\ [][OptionsNext]_vars

----------------------------------------------------------------------------
(* The chunk windower, one iteration at a time *)

\* window(text, document_id, window_len > 0, overlap_len >= 0, metadata):
\* the arguments of a run that is about to start.
WinStart(n, window_len, overlap_len) ==
    [NoWin EXCEPT !.pc = "start", !.text_len = n, !.window_len = window_len,
                  !.overlap_len = overlap_len]

\* The runs looked at: every short text with every small window and overlap,
\* a text of 250 with window 100 and overlap 20, and a text longer than two
\* default windows with the default window and overlap.
WinRuns ==
    { WinStart(n, w, o) : n \in 0..WinMaxText, w \in 1..WinMaxWindow, o \in 0..WinMaxWindow }
    \cup {WinStart(250, 100, 20)}
    \cup {WinStart(2 * default_chunk_size_tokens + 1, default_chunk_size_tokens,
                    default_chunk_overlap_tokens)}

\* The windower is entered: the empty text gives the empty sequence.
Window_Enter ==
    /\ win.pc = "start"
    /\ win' = [win EXCEPT
                 !.overlap = clamp_overlap(win.window_len, win.overlap_len),
                 !.offset = 0,
                 !.pc = IF win.text_len = 0 THEN "done" ELSE "loop"]
    /\ UNCHANGED <<backend, installed, config, sched, opts, inst, pc, req, tmpfile, doc, content,
                   chunks, chunk_count, exc, result, log, hist>>

\* As Window_Emit, with a chunk emitted at every stride below the length of
\* the text (for offset in range(0, len, stride)).
Window_Emit_every_stride ==
    /\ win.pc = "loop"
    /\ LET end == Min(win.offset + win.window_len, win.text_len)
           next == next_offset(win.offset, win.window_len, win.overlap)
       IN  win' = [win EXCEPT
                     !.spans = Append(@, <<win.offset, end>>),
                     !.iterations = @ + 1,
                     !.offset = IF next >= win.text_len THEN @ ELSE next,
                     !.pc = IF next >= win.text_len THEN "done" ELSE "loop"]
    /\ UNCHANGED <<backend, installed, config, sched, opts, inst, pc, req, tmpfile, doc, content,
                   chunks, chunk_count, exc, result, log, hist>>

\* One iteration: the chunk [offset, offset + window_len) clipped to the text
\* is emitted; the run stops when that chunk reaches the end of the text.
Window_Emit ==
    /\ win.pc = "loop"
    /\ LET end == Min(win.offset + win.window_len, win.text_len)
       IN  win' = [win EXCEPT
                     !.spans = Append(@, <<win.offset, end>>),
                     !.iterations = @ + 1,
                     !.offset = IF end >= win.text_len THEN @
                                ELSE next_offset(@, win.window_len, win.overlap),
                     !.pc = IF end >= win.text_len THEN "done" ELSE "loop"]
    /\ UNCHANGED <<backend, installed, config, sched, opts, inst, pc, req, tmpfile, doc, content,
                   chunks, chunk_count, exc, result, log, hist>>

WindowerInit ==
    /\ backend = "none"
    /\ installed = [decoder |-> FALSE, chunker |-> FALSE]
    /\ config = DefaultConfig
    /\ sched = NoSched
    /\ win \in WinRuns
    /\ opts = NoOpts
    /\ inst = NewInst
    /\ pc = "idle"
    /\ req = NoReq
    /\ tmpfile = "none"
    /\ doc = NoDoc
    /\ content = NoContent
    /\ chunks = Absent
    /\ chunk_count = 0
    /\ exc = NoExc
    /\ result = NoResult
    /\ log = {}
    /\ hist = NoHist

WindowerNext ==
    \/ Window_Enter
    \/ Window_Emit

WindowerSpec == WindowerInit /\ [][WindowerNext]_vars

----------------------------------------------------------------------------
\* The caller has the outcome; the instance is free for the next call.
Return ==
    /\ pc = "done"
    /\ pc' = "idle"
    /\ req' = NoReq
    /\ tmpfile' = "none"
    /\ doc' = NoDoc
    /\ content' = NoContent
    /\ chunks' = Absent
    /\ chunk_count' = 0
    /\ exc' = NoExc
    /\ result' = NoResult
    /\ log' = {}
    /\ hist' = [NoHist EXCEPT !.native_ever = hist.native_ever]
    /\ UNCHANGED <<backend, installed, config, sched, win, opts, inst>>

----------------------------------------------------------------------------
Init ==
    /\ backend \in Backends
    /\ installed \in [decoder : BOOLEAN, chunker : BOOLEAN]
    /\ config \in Configs
    /\ sched = NoSched
    /\ win = NoWin
    /\ opts = NoOpts
    /\ inst = NewInst
    /\ pc = "idle"
    /\ req = NoReq
    /\ tmpfile = "none"
    /\ doc = NoDoc
    /\ content = NoContent
    /\ chunks = Absent
    /\ chunk_count = 0
    /\ exc = NoExc
    /\ result = NoResult
    /\ log = {}
    /\ hist = NoHist

Next ==
    \/ Docling_Construct
    \/ Docling_Validate
    \/ Docling_CreateTemp
    \/ Docling_Convert
    \/ Docling_Export
    \/ Docling_CreateChunks
    \/ Docling_Fallback
    \/ Docling_Assemble
    \/ Docling_Cleanup
    \/ Legacy_Construct
    \/ Legacy_Begin
    \/ Legacy_CreateTemp
    \/ Legacy_Convert
    \/ Legacy_Export
    \/ Legacy_CreateChunks
    \/ Legacy_Fallback
    \/ Legacy_Assemble
    \/ Legacy_Cleanup
    \/ PyPDF_Construct
    \/ PyPDF_Begin
    \/ PyPDF_Decode
    \/ PyPDF_Assemble
    \/ Return

Spec == Init /\ [][Next]_vars

-----------------------------------------------------------------------------
(* Two calls of process_file on one instance.  The locals of a call are the
   variables of its frame; the instance (self.config, self.converter,
   self.chunker) is shared.  The call that is not running keeps its locals in
   sched.parked, and Switch hands the processor to it between two steps. *)

\* The frame of the running call.
Locals ==
    [pc |-> pc, req |-> req, tmpfile |-> tmpfile, doc |-> doc, content |-> content,
     chunks |-> chunks, chunk_count |-> chunk_count, exc |-> exc, result |-> result,
     log |-> log, hist |-> hist]

\* The steps of a call between which the other call is let in: call 1 is
\* suspended before its conversion or before its export, and call 2, begun or
\* resumed in between, runs until it has returned.
Preemptible ==
    \/ pc = "idle"
    \/ /\ sched.running = 1
       /\ pc \in {"convert", "export"}
       /\ req.file_data = "bytes"
       /\ req.format = "markdown"
       /\ req.chunking_strategy = AutoStrategy
       /\ ~req.include_embeddings
       /\ \/ doc = NoDoc
          \/ /\ doc # NoDoc
             /\ doc.len = MaxText
             /\ doc.stats["pages"] = Sized(MaxStat)
             /\ \A m \in Methods : doc.has[m]

Switch ==
    /\ sched.running # 0
    /\ inst.state = "ready"
    /\ Preemptible
    /\ sched' = [running |-> 3 - sched.running, parked |-> Locals]
    /\ pc' = sched.parked.pc
    /\ req' = sched.parked.req
    /\ tmpfile' = sched.parked.tmpfile
    /\ doc' = sched.parked.doc
    /\ content' = sched.parked.content
    /\ chunks' = sched.parked.chunks
    /\ chunk_count' = sched.parked.chunk_count
    /\ exc' = sched.parked.exc
    /\ result' = sched.parked.result
    /\ log' = sched.parked.log
    /\ hist' = sched.parked.hist
    /\ UNCHANGED <<backend, installed, config, win, opts, inst>>

ConcurrentInit ==
    /\ backend \in Backends
    /\ installed = [decoder |-> TRUE, chunker |-> TRUE]
    /\ config = DefaultConfig
    /\ sched = [running |-> 1, parked |-> IdleLocals]
    /\ win = NoWin
    /\ opts = NoOpts
    /\ inst = NewInst
    /\ pc = "idle"
    /\ req = NoReq
    /\ tmpfile = "none"
    /\ doc = NoDoc
    /\ content = NoContent
    /\ chunks = Absent
    /\ chunk_count = 0
    /\ exc = NoExc
    /\ result = NoResult
    /\ log = {}
    /\ hist = NoHist

ConcurrentNext ==
    \/ Next
    \/ Switch

ConcurrentSpec == ConcurrentInit /\ [][ConcurrentNext]_vars

----------------------------------------------------------------------------
(* Properties *)

Terminated == pc = "done"
Returned == pc = "done" /\ result.status = "returned"
HasStrategy == req.chunking_strategy.type # "none"
IsDocling == backend \in {"docling", "docling_legacy"}

\* The fallback ended by returning a pair.
FallbackReturned == hist.fallback \in {"ok", "export_failed", "failed"}
\* The chunking step failed and left no chunk.
ChunkingFailedEmpty == hist.fallback \in {"export_failed", "failed"}

NativeFailedLogged == "warning: Docling native chunking failed" \in log
EmbeddingWarned == "warning: Embedding generation not yet implemented" \in log

\* Chunks in left-to-right order.
Ordered(l) == \A i, j \in 1..Len(l) : i < j => l[i].start < l[j].start

\* C1: for every backend, a call with a zero-length byte payload ends by
\* raising the invalid-input error (ValueError), returns no ProcessedContent,
\* and never attempts to decode the payload.
C1_EmptyPayloadRejected ==
    (Terminated /\ req.file_data = "bytes_empty") =>
        /\ result.status = "raised"
        /\ result.kind = "ValueError"
        /\ ~hist.decode

\* C2: after any terminated call no temporary file created by the call still
\* exists, a failure while writing the payload included.
C2_TempFileReleased == Terminated => tmpfile # "exists"

\* C3: an exception of the native chunker, of whatever kind, never leaves the
\* chunking step: the step falls back to the windower.
C3_NativeFailureNeverPropagates == hist.native # "raised"

\* C4: a native chunker that completes with an empty chunk sequence is treated
\* as failed: the chunking step never returns the empty native result.
C4_EmptyNativeOutputFallsBack ==
    hist.native = "ok" => Len(chunks.list) > 0

\* C5: without the optional chunker capability the Docling backends are still
\* constructed, hold no chunker handle, never invoke a native chunker, and
\* send every chunking request to the fallback windower.
C5_ChunkerAbsenceDegrades ==
    (IsDocling /\ installed.decoder /\ ~installed.chunker /\ inst.state # "new") =>
        /\ inst.state = "ready"
        /\ ~inst.chunker
        /\ hist.native_calls = 0
        /\ ~hist.native_ever
        /\ (hist.chunk_calls > 0 /\ pc # "fallback") =>
                hist.fallback_calls = hist.chunk_calls

C5_Witness ==
    /\ backend = "docling"
    /\ ~installed.chunker
    /\ Returned
    /\ hist.chunk_calls = 1
    /\ hist.fallback = "ok"
    /\ Len(result.chunks.list) > 0

\* C6: a call in which native chunking failed and the fallback windower then
\* succeeded returns a ProcessedContent, and a log record of the call shows
\* the degradation.
C6_DegradationObservable ==
    (Terminated /\ hist.native = "failed" /\ hist.fallback = "ok") =>
        /\ result.status = "returned"
        /\ NativeFailedLogged

C6_Witness ==
    /\ Returned
    /\ hist.native = "failed"
    /\ hist.fallback = "ok"
    /\ Len(result.chunks.list) > 0
    /\ NativeFailedLogged

\* C7: the fallback chunking step never raises, whatever the export, the
\* statistics extraction or the windower raises.
C7_FallbackNeverRaises == hist.fallback # "raised"

\* C8: the fallback returns the empty result ([], 0) only if the export
\* itself failed; for an exported text that is not empty it returns the
\* windower's chunks.
C8_EmptyOnlyIfExportFails ==
    (FallbackReturned /\ doc.len > 0 /\ chunks = Some(<<>>)) =>
        hist.fallback = "export_failed"

\* C9 as stated: in every returned ProcessedContent, chunks is absent iff no
\* strategy was supplied or chunking failed with zero recoverable chunks.
C9_AbsentIffNoStrategyOrFailed ==
    Returned =>
        (~result.chunks.some <=> (~HasStrategy \/ ChunkingFailedEmpty))

\* C9 as amended: in every returned ProcessedContent, chunks is absent iff no
\* strategy was supplied; with a strategy it is a present, ordered sequence,
\* which is the empty sequence when chunking failed with zero recoverable
\* chunks.
C9_AbsentIffNoStrategy ==
    Returned =>
        /\ ~result.chunks.some <=> ~HasStrategy
        /\ ChunkingFailedEmpty => result.chunks = Some(<<>>)
        /\ Ordered(result.chunks.list)

C9_Witness ==
    /\ Returned
    /\ HasStrategy
    /\ ChunkingFailedEmpty
    /\ result.chunks = Some(<<>>)

\* C10: every returned ProcessedContent has no embeddings, and a call that
\* asks for embeddings and has chunks only logs the not-implemented warning:
\* it returns.
C10_EmbeddingsAbsentAndHarmless ==
    /\ Returned => ~result.embeddings.some
    /\ (Terminated /\ req.include_embeddings /\ chunks.some /\ Len(chunks.list) > 0) =>
            /\ EmbeddingWarned
            /\ result.status = "returned"

----------------------------------------------------------------------------
(* Export, errors and windower arguments *)

\* The export of process_file of the backend at hand.
ExportOf(fault) ==
    IF backend = "docling"
    THEN export_document_content(doc, req.format, fault)
    ELSE Legacy_export(doc, req.format, fault)

\* The export operation the dispatch is to choose for a format.
OwnOperation(format_type) ==
    IF format_type \in {"markdown", "html", "json"}
    THEN "export_to_" \o format_type
    ELSE "export_to_text"

\* C11: export dispatch is permissive.  For a decoded document, a format
\* other than markdown, html and json is exported with the plain-text
\* operation and the dispatch raises nothing (the export returns the text
\* whenever the handle's text operation is there and returns); markdown, html
\* and json are exported with their own operation.
C11_ExportDispatchPermissive ==
    /\ (IsDocling /\ pc = "export"
           /\ req.format \notin {"markdown", "html", "json"}
           /\ doc.has["export_to_text"]) =>
            ExportOf("none") = Ok(Text("export_to_text", doc.len))
    /\ (IsDocling /\ pc = "export") =>
            \A fault \in ExportCalls :
                ExportOf(fault).raised = "none" =>
                    ExportOf(fault).value.fmt = OwnOperation(req.format)
    /\ (IsDocling /\ content # NoContent) => content.fmt = OwnOperation(req.format)

C11_Witness ==
    /\ backend = "docling"
    /\ Returned
    /\ req.format = "yaml"
    /\ result.content = Text("export_to_text", doc.len)

\* Errors process_file raises on its own account, with no exception behind them.
OwnErrors == {"Invalid conversion result for filename", "DocumentConverter not initialized"}

\* C13: a call that fails in decode, export, chunking or metadata assembly
\* ends by raising the processing error (RuntimeError) and nothing else, and
\* that error has the original failure as its cause.
C13_SingleProcessingError ==
    (Terminated /\ result.status = "raised" /\ hist.decode) =>
        /\ result.kind = "RuntimeError"
        /\ result.cause # "none" \/ result.msg \in OwnErrors

\* The messages that name the file of the request.
NamesFilename(msg) ==
    msg \in {"Export failed for filename", "Invalid conversion result for filename"}

\* C14: every error a call raises to its caller names the filename of the
\* request and the stage that failed.
C14_ErrorsNameFilenameAndStage ==
    (Terminated /\ result.status = "raised") => NamesFilename(result.msg)

\* C15: with strategy Auto and no native chunker the windower is invoked with
\* the instance's configured default_chunk_size_tokens and
\* default_chunk_overlap_tokens, and for a text longer than that default
\* window the call returns a chunk count above 0.
C15_AutoUsesConfiguredDefaults ==
    (Terminated /\ ~inst.chunker /\ req.chunking_strategy.type = "auto"
       /\ hist.windower.called) =>
        /\ hist.windower.window_len = config.default_chunk_size_tokens
        /\ hist.windower.overlap_len = config.default_chunk_overlap_tokens
        /\ content.len > config.default_chunk_size_tokens =>
                /\ result.status = "returned"
                /\ result.metadata.chunk_count > 0

\* C16: every invocation of the windower by a backend is made with
\* overlap_len < window_len.
C16_WindowerEnteredWithPositiveStride ==
    hist.windower.called => hist.windower.overlap_len < hist.windower.window_len

----------------------------------------------------------------------------
(* Option translation *)

\* The key an option is translated to and the type its value is to have.
TargetOf(source_key) == IF source_key = "format" THEN "output_format" ELSE source_key
CoercedType(source_key) ==
    CASE source_key = "format" -> "str"
      [] source_key = "ocr_languages" -> "list"
      [] OTHER -> "bool"

\* The options that are to be translated: known, present and valid.
ValidOptions(options) ==
    { k \in KnownOptions \cap DOMAIN options :
        k = "ocr_languages" => options[k].type = "list" }

\* C12: option translation returns, for every options mapping, a mapping
\* with a target key exactly for the known options present with a valid
\* value: no unknown key, no ocr_languages that is not a list, and every
\* other known option present, its value coerced to the option's type.
C12_OptionTranslationNeverRejects ==
    opts.pc = "done" =>
        /\ DOMAIN opts.docling_options =
                { TargetOf(k) : k \in ValidOptions(opts.options) }
        /\ \A k \in ValidOptions(opts.options) :
                opts.docling_options[TargetOf(k)].type = CoercedType(k)

----------------------------------------------------------------------------
(* The windower *)

Max(a, b) == IF a > b THEN a ELSE b
CeilDiv(a, b) == (a + b - 1) \div b

\* ceil(len(text) / max(1, window_len - overlap_len))
IterationBound ==
    CeilDiv(win.text_len, Max(1, win.window_len - win.overlap_len))

\* C17: the windower terminates: a run still in its loop has made fewer than
\* ceil(len(text) / max(1, window_len - overlap_len)) iterations and a
\* finished run at most that many, an overlap_len >= window_len included.
C17_WindowerTerminates ==
    /\ win.pc = "loop" => win.iterations < IterationBound
    /\ win.pc = "done" => win.iterations <= IterationBound

C17_Witness ==
    /\ win.pc = "done"
    /\ win.overlap_len >= win.window_len
    /\ win.iterations > 1
    /\ win.iterations = Len(win.spans)

\* The chunks that hold a token position.
ChunksHolding(p) ==
    { i \in 1..Len(win.spans) : win.spans[i][1] <= p /\ p < win.spans[i][2] }

\* The positions chunk k adds once its overlap with chunk k - 1 is removed.
NewPositions(k) ==
    LET from == IF k = 1 THEN win.spans[k][1]
                ELSE Max(win.spans[k][1], win.spans[k - 1][2])
    IN  [j \in 1..(win.spans[k][2] - from) |-> from + j - 1]

RECURSIVE Deduplicated(_)
Deduplicated(k) == IF k = 0 THEN <<>> ELSE Deduplicated(k - 1) \o NewPositions(k)

\* C18: for a non-empty text and overlap_len < window_len every token
\* position lies in a chunk, and the chunks joined after removing each
\* chunk's overlap with its predecessor are the text.
C18_WindowerCoverage ==
    (win.pc = "done" /\ win.text_len > 0 /\ win.overlap_len < win.window_len) =>
        /\ \A p \in 0..(win.text_len - 1) : ChunksHolding(p) # {}
        /\ Deduplicated(Len(win.spans)) = [j \in 1..win.text_len |-> j - 1]

C18_Witness ==
    /\ win.pc = "done"
    /\ win.overlap_len > 0
    /\ win.overlap_len < win.window_len
    /\ Len(win.spans) >= 3
    /\ win.spans[Len(win.spans)][2] = win.text_len

\* A position in the overlap of two consecutive chunks.
InOverlap(p) ==
    \E i \in 1..(Len(win.spans) - 1) :
        win.spans[i + 1][1] <= p /\ p < win.spans[i][2]

\* Every position is in one chunk, or in two consecutive chunks when it is
\* in an overlap region.
ExactlyOnceExceptOverlaps ==
    \A p \in 0..(win.text_len - 1) :
        /\ Cardinality(ChunksHolding(p)) \in {1, 2}
        /\ InOverlap(p) <=> Cardinality(ChunksHolding(p)) = 2
        /\ Cardinality(ChunksHolding(p)) = 2 =>
                \E i \in 1..(Len(win.spans) - 1) : ChunksHolding(p) = {i, i + 1}

\* C19 as stated: for every overlap_len < window_len every token position
\* is in exactly one chunk, or in exactly two consecutive chunks when it is
\* in an overlap region, and never in three.
C19_ExactlyOnceForEveryOverlap ==
    (win.pc = "done" /\ win.overlap_len < win.window_len) => ExactlyOnceExceptOverlaps

\* C19 as amended: the same for every overlap_len of at most half the
\* window, the defaults included.
C19_ExactlyOnceUpToHalfWindow ==
    (win.pc = "done" /\ 2 * win.overlap_len <= win.window_len) =>
        ExactlyOnceExceptOverlaps

C19_Witness ==
    /\ win.pc = "done"
    /\ win.window_len = default_chunk_size_tokens
    /\ win.overlap_len = default_chunk_overlap_tokens
    /\ Len(win.spans) >= 3
    /\ \E p \in 0..(win.text_len - 1) : InOverlap(p)

\* C20: a text of 250 token units with window_len 100 and overlap_len 20
\* gives exactly four chunks, starting at 0, 80, 160 and 240, the last of
\* length 10.
C20_Scenario250 ==
    (win.pc = "done" /\ win.text_len = 250 /\ win.window_len = 100
       /\ win.overlap_len = 20) =>
        /\ [i \in 1..Len(win.spans) |-> win.spans[i][1]] = <<0, 80, 160, 240>>
        /\ win.spans[Len(win.spans)][2] - win.spans[Len(win.spans)][1] = 10


-----------------------------------------------------------------------------
(* Two calls on one instance *)

-----------------------------------------------------------------------------
(* Construction, chunk elements, failure of the native chunker *)

\* C22: a missing decoder library is found when the backend is constructed
\* (construction fails) and never by a request: without the decoder no
\* instance becomes ready and no call of process_file ends by raising.
C22_DecoderAbsenceFoundAtConstruction ==
    ~installed.decoder =>
        /\ inst.state # "ready"
        /\ ~(pc = "done" /\ result.status = "raised")

\* C23: for a decoded document and a strategy that yields at least one chunk
\* the call returns, and the chunks of its result are a non-empty list of
\* plain strings.
C23_ChunksArePlainStrings ==
    (pc = "done" /\ chunks.some /\ Len(chunks.list) > 0) =>
        /\ Returned
        /\ result.chunks.some
        /\ Len(result.chunks.list) > 0
        /\ \A i \in 1..Len(result.chunks.list) : result.chunks.list[i].type = "str"

\* The chunks lie over a text of n tokens from its first token to its last
\* without a gap.
CoversText(l, n) ==
    n > 0 =>
        /\ Len(l) > 0
        /\ l[1].start = 0
        /\ l[Len(l)].end = n
        /\ \A i \in 2..Len(l) : l[i].start <= l[i - 1].end

\* Every chunk was made by the fallback windower.
SolelyFallback(l) == \A i \in 1..Len(l) : l[i].processor = "docling_fallback"

\* The native chunker raised after it had yielded a chunk.
RaisedMidIteration == hist.native_partial > 0

\* C24 as stated: when the native chunker raises after it has yielded chunks,
\* the chunks returned are fallback chunks only and cover the whole exported
\* text.
C24_MidIterationFailureCoversText ==
    (Returned /\ RaisedMidIteration) =>
        /\ result.chunks.some
        /\ SolelyFallback(result.chunks.list)
        /\ CoversText(result.chunks.list, doc.len)

\* C24 as amended: the chunks returned hold none of the native chunks; they
\* are the fallback's chunks over the whole exported text when the fallback
\* succeeded, and the empty sequence when the fallback failed.
C24_MidIterationFailureFallbackOnly ==
    (Returned /\ RaisedMidIteration) =>
        /\ result.chunks.some
        /\ SolelyFallback(result.chunks.list)
        /\ IF hist.fallback = "ok"
           THEN CoversText(result.chunks.list, doc.len)
           ELSE result.chunks.list = <<>>

C24_Witness ==
    /\ Returned
    /\ RaisedMidIteration
    /\ hist.fallback = "ok"
    /\ Len(result.chunks.list) > 1


-----------------------------------------------------------------------------
(* Shape of the windower's output, and the chunking step as a state machine *)

\* The chunks emitted so far are those of a windower advancing by stride:
\* chunk k starts at k * stride and spans window_len tokens clipped to the
\* text, starts increase strictly, every chunk but the last is a full window,
\* and no chunk follows one that reached the end of the text.
EmittedByStride(stride) ==
    /\ \A k \in 1..Len(win.spans) :
         LET start == (k - 1) * stride
         IN  win.spans[k] = <<start, Min(start + win.window_len, win.text_len)>>
    /\ \A k \in 1..(Len(win.spans) - 1) :
         /\ win.spans[k][1] < win.spans[k + 1][1]
         /\ win.spans[k][2] - win.spans[k][1] = win.window_len
         /\ win.spans[k][2] < win.text_len
    /\ (win.pc = "done" /\ win.text_len > 0) =>
         /\ Len(win.spans) > 0
         /\ win.spans[Len(win.spans)][2] = win.text_len

\* C25 as stated: the windower emits chunk k at k * (window_len - overlap_len).
C25_StrideIsWindowLessOverlap ==
    EmittedByStride(win.window_len - win.overlap_len)

\* C25 as amended: the windower emits chunk k at k * (window_len - overlap),
\* overlap being overlap_len held below window_len.
C25_StrideIsWindowLessClampedOverlap ==
    EmittedByStride(win.window_len - Min(win.overlap_len, win.window_len - 1))

C25_Witness ==
    /\ win.pc = "done"
    /\ Len(win.spans) >= 3
    /\ win.overlap_len > 0
    /\ win.overlap_len < win.window_len
    /\ win.spans[Len(win.spans)][2] - win.spans[Len(win.spans)][1] < win.window_len

\* C26: within one call the native chunker is attempted at most once and the
\* fallback windower at most once, the native attempt is not returned to
\* after the fallback has begun, and a failed fallback ends the chunking step
\* with ([], 0).
C26_ForwardOnlyChunking ==
    /\ hist.native_calls <= 1
    /\ hist.fallback_calls <= 1
    /\ hist.chunk_calls <= 1
    /\ hist.fallback_calls = 1 => pc # "chunk"
    /\ hist.fallback \notin {"none", "ok"} =>
         /\ pc \in {"assemble", "cleanup", "done"}
         /\ chunks = Some(<<>>)
         /\ chunk_count = 0


-----------------------------------------------------------------------------
(* Statistics, chunk count, validation, the fallback's text *)

\* The statistic of an attribute: its size, 0 when it is missing or unsized.
ExpectedStat(v) == IF v.kind = "sized" THEN v.size ELSE 0

\* The statistics the backend computes for the document at hand.
StatsOfDocument ==
    IF backend = "docling" THEN extract_document_stats(doc, Attributes)
    ELSE Legacy_stats(doc)

\* C27: the statistics of a document handle never raise, and pages, tables
\* and figures are the size of the attribute when it exists and is sized and
\* 0 otherwise, in the result and in the fallback.
C27_StatisticsNeverRaise ==
    /\ (IsDocling /\ doc # NoDoc) => StatsOfDocument.raised = "none"
    /\ hist.fallback # "failed"
    /\ (IsDocling /\ Returned) =>
         \A a \in Attributes : result.metadata.stats[a] = ExpectedStat(doc.stats[a])

\* C28: in every returned ProcessedContent chunk_count is the number of
\* elements of chunks, and 0 when chunks is absent.
C28_ChunkCountIsLength ==
    Returned =>
        result.metadata.chunk_count =
            IF result.chunks.some THEN Len(result.chunks.list) ELSE 0

\* A result of the native path that holds MaxNative chunks is returned.
C28_Witness ==
    /\ Returned
    /\ hist.native = "ok"
    /\ result.metadata.chunk_count = MaxNative

\* Payloads the validation of the Docling backend refuses.
InvalidPayloads == {"str_empty", "b64_invalid", "b64_to_empty", "not_bytes", "bytes_empty"}

\* C29: in the Docling backend a request refused by validation ends by
\* raising before a temporary file is created and before the converter is
\* invoked.
C29_ValidationBeforeTempFile ==
    (backend = "docling" /\ req.file_data \in InvalidPayloads) =>
        /\ pc = "done"
        /\ result.status = "raised"
        /\ tmpfile = "none"
        /\ ~hist.tmp_created
        /\ ~hist.decode

C29_Witness ==
    /\ backend = "docling"
    /\ req.file_data = "b64_to_empty"
    /\ pc = "done"
    /\ result.status = "raised"
    /\ result.kind = "ValueError"

\* C30: the text the fallback windower slices is the document exported in
\* the format of the returned content: every fallback chunk is a slice of
\* the content of the result.
C30_FallbackSlicesReturnedContent ==
    (Returned /\ hist.fallback = "ok") =>
        \A i \in 1..Len(result.chunks.list) :
            result.chunks.list[i].of = result.content.fmt

====
